---------------------------- MODULE Spec2Model ----------------------------
(*************************************************************************)
(* Model of the two submission scripts of qca-dataset-submission:        *)
(*   - 02_create_torsiondrive_dataset.py  (prog = "torsion")             *)
(*   - create_optimization_dataset.py     (prog = "optimization")        *)
(* The remote service (qcportal) and the chemistry toolkit (qcelemental) *)
(* are external: what they answer is a nondeterministic choice.          *)
(*************************************************************************)
EXTENDS Integers, Sequences, FiniteSets, TLC

VARIABLES
    prog,                \* which script runs
    pc,                  \* position in the script
    abortAt,             \* position at which an uncaught exception ended the run
    abortReason,         \* the exception's type
    \* ---- file system and remote service
    jsonOnDisk,          \* the input JSON file exists on disk
    archive,             \* state of coverage_selected_torsions.json.tar.gz
    fileTorsions,        \* number of torsions in the JSON file's mapping
    dsEntries,           \* entries the dataset has accepted
    unflushed,           \* entries accepted with save=False since the last ds.save()
    saves,               \* ds.save() calls made
    addCalls,            \* ds.add_entry() calls made
    lastAdd,             \* how the add_entry call of the current iteration ended
    skipped,             \* add_entry calls that ended in KeyError
    computes,            \* ds.compute() calls made
    \* ---- torsion script
    loaded,              \* selected_torsions has been read
    selected_torsions,   \* len(selected_torsions)
    pos,                 \* entries of the submission loop's mapping taken so far
    i,                   \* the script's success counter
    initial_molecules,   \* torsion_data["initial_molecules"] of the current entry
    \* ---- optimization script
    molecule_data_list,  \* the list read from input_json
    start_compute,       \* args.start
    rec,                 \* position of the outer loop of read_molecules
    conf,                \* i_conformer, position of the inner loop
    index_counter,       \* Counter(): base identifier -> count
    keyOrder,            \* insertion order of molecules_dict (dict order)
    molecules_dict,      \* this_index -> <<record, conformer>>
    molecule_attributes, \* this_index -> record whose cmiles_ids it holds
    returned             \* create_optimization_dataset returned ds

fsVars  == <<jsonOnDisk, archive, fileTorsions>>
dsVars  == <<dsEntries, unflushed, saves, addCalls, lastAdd, skipped, computes>>
torVars == <<loaded, selected_torsions, pos, i, initial_molecules>>
optVars == <<molecule_data_list, start_compute, rec, conf, index_counter,
             keyOrder, molecules_dict, molecule_attributes, returned>>
vars    == <<prog, pc, abortAt, abortReason, fsVars, dsVars, torVars, optVars>>

-----------------------------------------------------------------------------
(* Bounds and program constants *)

BatchSize == 30

MaxTorsions == 61

MaxMols == 2

MaxRecords == 2

MaxConf == 11

\* Sizes of the torsion mapping that are tried: around the batch boundaries.
TorsionCounts == {0, 1, BatchSize - 1, BatchSize, 2 * BatchSize, MaxTorsions}

\* Numbers of conformers a record may hold.
ConfCounts == {0, 1, MaxConf}

\* A molecule of the torsion input, as the connectivity check sees it:
\* len(molecule.symbols) and len(guess_connectivity(...)).
Molecules == { [symbols |-> 4, conn |-> c] : c \in {1, 2} }

MolLists == UNION { [1..n -> Molecules] : n \in 0..MaxMols }

\* Base identifiers (canonical_isomeric_smiles), as character sequences.
CCO     == <<"C", "C", "O">>
CCO_1   == <<"C", "C", "O", "-", "1">>
CCO_1_0 == <<"C", "C", "O", "-", "1", "-", "0">>
Bases   == {CCO, CCO_1, CCO_1_0}

Records == [index : Bases, nconf : ConfCounts]

RecordLists == UNION { [1..n -> Records] : n \in 0..MaxRecords }

EmptyMap == [x \in {} |-> 0]

-----------------------------------------------------------------------------
(* Pure helpers *)

Digits == <<"0", "1", "2", "3", "4", "5", "6", "7", "8", "9">>

\* str(n) for n >= 0, as f'{index_count}' formats it
RECURSIVE Str(_)
Str(n) == IF n < 10 THEN <<Digits[n + 1]>>
          ELSE Str(n \div 10) \o <<Digits[(n % 10) + 1]>>

ThisIndexNoZeroSuffix(index, index_count) ==
    IF index_count = 0 THEN index ELSE index \o <<"-">> \o Str(index_count)

\* this_index = f'{index}-{index_count}'
ThisIndex(index, index_count) == index \o <<"-">> \o Str(index_count)

RECURSIVE SumCounts(_, _)
SumCounts(c, ks) ==
    IF ks = {} THEN 0
    ELSE LET k == CHOOSE x \in ks : TRUE IN c[k] + SumCounts(c, ks \ {k})

CounterGetGlobal(c, index) == SumCounts(c, DOMAIN c)

\* index_counter[index]: a Counter answers 0 for a key it does not hold
CounterGet(c, index) == IF index \in DOMAIN c THEN c[index] ELSE 0

\* index_counter[index] += 1
CounterIncr(c, index) ==
    [k \in DOMAIN c \cup {index} |-> IF k = index THEN CounterGet(c, index) + 1 ELSE c[k]]

\* d[k] = v
DictSet(d, k, v) == [x \in DOMAIN d \cup {k} |-> IF x = k THEN v ELSE d[x]]

StoreAttributesByBase(attrs, this_index, index, r) == DictSet(attrs, index, r)

\* molecule_attributes[this_index] = cmiles_ids
StoreAttributes(attrs, this_index, index, r) == DictSet(attrs, this_index, r)

\* assert (len(conn) + 3) > len(molecule.symbols)
PassesCheck(m) == m.conn + 3 > m.symbols

\* The first record at or after r that holds a conformer, or Len + 1: where the
\* nested for loops of read_molecules stand next.
RECURSIVE NextRec(_, _)
NextRec(l, r) == IF r > Len(l) THEN Len(l) + 1
                 ELSE IF l[r].nconf > 0 THEN r
                 ELSE NextRec(l, r + 1)

Abort(at, reason) ==
    /\ pc' = "aborted"
    /\ abortAt' = at
    /\ abortReason' = reason

NoAbort == UNCHANGED <<abortAt, abortReason>>

-----------------------------------------------------------------------------
(* Initial states *)

Init ==
    /\ prog \in {"torsion", "optimization"}
    /\ abortAt = "none"
    /\ abortReason = "none"
    /\ dsEntries = 0 /\ unflushed = 0 /\ saves = 0 /\ addCalls = 0
    /\ lastAdd = "none" /\ skipped = 0 /\ computes = 0
    /\ loaded = FALSE /\ selected_torsions = 0 /\ pos = 0 /\ i = 0
    /\ initial_molecules = <<>>
    /\ rec = 1 /\ conf = 0
    /\ index_counter = EmptyMap /\ keyOrder = <<>>
    /\ molecules_dict = EmptyMap /\ molecule_attributes = EmptyMap
    /\ returned = FALSE
    /\ \/ /\ prog = "torsion"
          /\ pc = "t_extract"
          /\ jsonOnDisk \in BOOLEAN
          /\ archive \in {"missing", "ok"}
          /\ fileTorsions \in TorsionCounts
          /\ molecule_data_list = <<>>
          /\ start_compute = FALSE
       \/ /\ prog = "optimization"
          /\ pc = "o_read_init"
          /\ jsonOnDisk \in BOOLEAN
          /\ archive = "missing"
          /\ fileTorsions = 0
          /\ molecule_data_list \in RecordLists
          /\ start_compute \in BOOLEAN

-----------------------------------------------------------------------------
(* 02_create_torsiondrive_dataset.py *)

\* lines 36-38: if the JSON is missing, open the archive and call extractfile,
\* which hands back a reader over the member and writes nothing to disk.
ExtractArchive ==
    /\ pc = "t_extract"
    /\ IF jsonOnDisk
       THEN pc' = "t_read" /\ NoAbort
       ELSE IF archive = "missing"
            THEN Abort("load", "FileNotFoundError")
            ELSE pc' = "t_read" /\ NoAbort
    /\ UNCHANGED <<prog, fsVars, dsVars, torVars, optVars>>

\* lines 14-31, 39: read_selected_torsions opens the path and returns json.load
ReadSelectedTorsions ==
    /\ pc = "t_read"
    /\ IF jsonOnDisk
       THEN /\ loaded' = TRUE
            /\ selected_torsions' = fileTorsions
            /\ pc' = "t_dataset"
            /\ NoAbort
       ELSE /\ Abort("load", "FileNotFoundError")
            /\ UNCHANGED <<loaded, selected_torsions>>
    /\ UNCHANGED <<prog, fsVars, dsVars, pos, i, initial_molecules, optVars>>

\* lines 46-94: client, new dataset (UPDATE is False), specification, i = 0
InitDataset ==
    /\ pc = "t_dataset"
    /\ \/ /\ pc' = "t_loop"
          /\ i' = 0
          /\ NoAbort
       \/ /\ Abort("dataset", "OtherError")
          /\ UNCHANGED i
    /\ UNCHANGED <<prog, fsVars, dsVars, loaded, selected_torsions, pos,
                   initial_molecules, optVars>>

\* lines 96-107: take the next entry of selected_torsions.items() and check the
\* connectivity of initial_molecules[0]
IterBegin ==
    /\ pc = "t_loop"
    /\ pos < selected_torsions
    /\ \E mols \in MolLists :
          /\ initial_molecules' = mols
          /\ IF Len(mols) = 0
             THEN Abort("check", "IndexError")
             ELSE \/ \* lines 105-106: the toolkit rejects the molecule's data
                     Abort("check", "OtherError")
                  \/ IF ~PassesCheck(mols[1])
                     THEN Abort("check", "AssertionError")
                     ELSE pc' = "t_add" /\ NoAbort
    /\ pos' = pos + 1
    /\ lastAdd' = "none"
    /\ UNCHANGED <<prog, fsVars, dsEntries, unflushed, saves, addCalls, skipped,
                   computes, loaded, selected_torsions, i, optVars>>

\* lines 109-119: add_entry(..., save=False) returns; i += 1
AddEntryOk ==
    /\ pc = "t_add"
    /\ addCalls' = addCalls + 1
    /\ lastAdd' = "ok"
    /\ dsEntries' = dsEntries + 1
    /\ unflushed' = unflushed + 1
    /\ i' = i + 1
    /\ pc' = "t_savecheck"
    /\ NoAbort
    /\ UNCHANGED <<prog, fsVars, saves, skipped, computes, loaded,
                   selected_torsions, pos, initial_molecules, optVars>>

AddEntryKeyErrorFallsThrough ==
    /\ pc = "t_add"
    /\ addCalls' = addCalls + 1
    /\ lastAdd' = "KeyError"
    /\ skipped' = skipped + 1
    /\ pc' = "t_savecheck"
    /\ NoAbort
    /\ UNCHANGED <<prog, fsVars, dsEntries, unflushed, saves, computes, loaded,
                   selected_torsions, pos, i, initial_molecules, optVars>>

\* lines 109-121: add_entry raises KeyError; except KeyError: continue
AddEntryKeyError ==
    /\ pc = "t_add"
    /\ addCalls' = addCalls + 1
    /\ lastAdd' = "KeyError"
    /\ skipped' = skipped + 1
    /\ pc' = "t_loop"
    /\ NoAbort
    /\ UNCHANGED <<prog, fsVars, dsEntries, unflushed, saves, computes, loaded,
                   selected_torsions, pos, i, initial_molecules, optVars>>

\* lines 109-121: add_entry raises anything else, which nothing catches
AddEntryOtherError ==
    /\ pc = "t_add"
    /\ addCalls' = addCalls + 1
    /\ lastAdd' = "OtherError"
    /\ Abort("add", "OtherError")
    /\ UNCHANGED <<prog, fsVars, dsEntries, unflushed, saves, skipped, computes,
                   loaded, selected_torsions, pos, i, initial_molecules, optVars>>

SaveCheckEveryEntryCount ==
    /\ pc = "t_savecheck"
    /\ IF (pos % BatchSize) = 0
       THEN saves' = saves + 1 /\ unflushed' = 0
       ELSE UNCHANGED <<saves, unflushed>>
    /\ pc' = "t_loop"
    /\ UNCHANGED <<prog, abortAt, abortReason, fsVars, dsEntries, addCalls, lastAdd,
                   skipped, computes, torVars, optVars>>

\* lines 123-125: if (i % 30) == 0: ds.save()
SaveCheck ==
    /\ pc = "t_savecheck"
    /\ IF (i % BatchSize) = 0
       THEN saves' = saves + 1 /\ unflushed' = 0
       ELSE UNCHANGED <<saves, unflushed>>
    /\ pc' = "t_loop"
    /\ UNCHANGED <<prog, abortAt, abortReason, fsVars, dsEntries, addCalls, lastAdd,
                   skipped, computes, torVars, optVars>>

\* line 96: the mapping is exhausted, the for loop ends
LoopEnd ==
    /\ pc = "t_loop"
    /\ pos = selected_torsions
    /\ pc' = "t_final_save"
    /\ UNCHANGED <<prog, abortAt, abortReason, fsVars, dsVars, torVars, optVars>>

FinalSaveOnlyIfPending ==
    /\ pc = "t_final_save"
    /\ IF (i % BatchSize) = 0
       THEN UNCHANGED <<saves, unflushed>>
       ELSE saves' = saves + 1 /\ unflushed' = 0
    /\ pc' = "t_compute"
    /\ UNCHANGED <<prog, abortAt, abortReason, fsVars, dsEntries, addCalls, lastAdd,
                   skipped, computes, torVars, optVars>>

\* line 127: ds.save()
FinalSave ==
    /\ pc = "t_final_save"
    /\ saves' = saves + 1
    /\ unflushed' = 0
    /\ pc' = "t_compute"
    /\ UNCHANGED <<prog, abortAt, abortReason, fsVars, dsEntries, addCalls, lastAdd,
                   skipped, computes, torVars, optVars>>

\* lines 128-132: comp = ds.compute("default", tag="openff"); print
TorsionCompute ==
    /\ pc = "t_compute"
    /\ computes' = computes + 1
    /\ \/ pc' = "done" /\ NoAbort
       \/ Abort("compute", "OtherError")
    /\ UNCHANGED <<prog, fsVars, dsEntries, unflushed, saves, addCalls, lastAdd,
                   skipped, torVars, optVars>>

TorsionNext ==
    \/ ExtractArchive
    \/ ReadSelectedTorsions
    \/ InitDataset
    \/ IterBegin
    \/ AddEntryOk
    \/ AddEntryKeyError
    \/ AddEntryOtherError
    \/ SaveCheck
    \/ LoopEnd
    \/ FinalSave
    \/ TorsionCompute

-----------------------------------------------------------------------------
(* create_optimization_dataset.py *)

\* lines 38-42: empty dicts, open and json.load, index_counter = Counter()
ReadInit ==
    /\ pc = "o_read_init"
    /\ molecules_dict' = EmptyMap
    /\ molecule_attributes' = EmptyMap
    /\ keyOrder' = <<>>
    /\ IF jsonOnDisk
       THEN /\ index_counter' = EmptyMap
            /\ rec' = NextRec(molecule_data_list, 1)
            /\ conf' = 0
            /\ pc' = "o_read_loop"
            /\ NoAbort
       ELSE /\ Abort("load", "FileNotFoundError")
            /\ UNCHANGED <<index_counter, rec, conf>>
    /\ UNCHANGED <<prog, fsVars, dsVars, torVars, molecule_data_list,
                   start_compute, returned>>

\* lines 43-55: one pass of the inner loop body, for conformer conf of record rec
ReadMolecule ==
    /\ pc = "o_read_loop"
    /\ rec <= Len(molecule_data_list)
    /\ LET index       == molecule_data_list[rec].index
           index_count == CounterGet(index_counter, index)
           this_index  == ThisIndex(index, index_count)
       IN  \/ \* line 48: Molecule.from_data rejects the molecule's data
              /\ Abort("read", "OtherError")
              /\ UNCHANGED <<index_counter, molecules_dict, molecule_attributes,
                             keyOrder, rec, conf>>
           \/ /\ index_counter' = CounterIncr(index_counter, index)
              /\ IF this_index \in DOMAIN molecules_dict
                 THEN /\ Abort("read", "AssertionError")
                      /\ UNCHANGED <<molecules_dict, molecule_attributes, keyOrder,
                                     rec, conf>>
                 ELSE /\ molecules_dict' = DictSet(molecules_dict, this_index, <<rec, conf>>)
                      /\ keyOrder' = Append(keyOrder, this_index)
                      /\ molecule_attributes' =
                             StoreAttributes(molecule_attributes, this_index, index, rec)
                      /\ IF conf + 1 < molecule_data_list[rec].nconf
                         THEN conf' = conf + 1 /\ rec' = rec
                         ELSE conf' = 0 /\ rec' = NextRec(molecule_data_list, rec + 1)
                      /\ UNCHANGED <<pc, abortAt, abortReason>>
    /\ UNCHANGED <<prog, fsVars, dsVars, torVars, molecule_data_list,
                   start_compute, returned>>

\* lines 56, 121: the loops are over, read_molecules returns both dicts
ReadReturn ==
    /\ pc = "o_read_loop"
    /\ rec > Len(molecule_data_list)
    /\ pc' = "o_create"
    /\ UNCHANGED <<prog, abortAt, abortReason, fsVars, dsVars, torVars, optVars>>

\* lines 91-100: client, new OptimizationDataset, add_specification
CreateDataset ==
    /\ pc = "o_create"
    /\ \/ pc' = "o_add" /\ NoAbort
       \/ Abort("dataset", "OtherError")
    /\ UNCHANGED <<prog, fsVars, dsVars, torVars, optVars>>

OptAddEntryOkThenCompute ==
    /\ pc = "o_add"
    /\ pos < Len(keyOrder)
    /\ pos' = pos + 1
    /\ addCalls' = addCalls + 1
    /\ lastAdd' = "ok"
    /\ dsEntries' = dsEntries + 1
    /\ computes' = IF start_compute THEN computes + 1 ELSE computes
    /\ UNCHANGED <<prog, pc, abortAt, abortReason, fsVars, unflushed, saves, skipped,
                   loaded, selected_torsions, i, initial_molecules, optVars>>

\* lines 101-103: ds.add_entry(molecule_index, molecule, attributes=...) returns
OptAddEntryOk ==
    /\ pc = "o_add"
    /\ pos < Len(keyOrder)
    /\ pos' = pos + 1
    /\ addCalls' = addCalls + 1
    /\ lastAdd' = "ok"
    /\ dsEntries' = dsEntries + 1
    /\ UNCHANGED <<prog, pc, abortAt, abortReason, fsVars, unflushed, saves, skipped,
                   computes, loaded, selected_torsions, i, initial_molecules, optVars>>

\* lines 101-103: ds.add_entry raises; there is no try around it, so a KeyError
\* leaves the function like any other exception
OptAddEntryRaises ==
    /\ pc = "o_add"
    /\ pos < Len(keyOrder)
    /\ pos' = pos + 1
    /\ addCalls' = addCalls + 1
    /\ \E e \in {"KeyError", "OtherError"} :
          /\ lastAdd' = e
          /\ Abort("add", e)
    /\ UNCHANGED <<prog, fsVars, dsEntries, unflushed, saves, skipped, computes,
                   loaded, selected_torsions, i, initial_molecules, optVars>>

\* line 101: molecules_dict.items() is exhausted
OptLoopEnd ==
    /\ pc = "o_add"
    /\ pos = Len(keyOrder)
    /\ pc' = "o_compute"
    /\ UNCHANGED <<prog, abortAt, abortReason, fsVars, dsVars, torVars, optVars>>

\* lines 104-107: if start_compute: ds.compute(spec_name); return ds
OptComputeAndReturn ==
    /\ pc = "o_compute"
    /\ IF start_compute
       THEN /\ computes' = computes + 1
            /\ \/ pc' = "done" /\ returned' = TRUE /\ NoAbort
               \/ Abort("compute", "OtherError") /\ UNCHANGED returned
       ELSE /\ pc' = "done" /\ returned' = TRUE /\ NoAbort
            /\ UNCHANGED computes
    /\ UNCHANGED <<prog, fsVars, dsEntries, unflushed, saves, addCalls, lastAdd,
                   skipped, torVars, molecule_data_list, start_compute, rec, conf,
                   index_counter, keyOrder, molecules_dict, molecule_attributes>>

OptimizationNext ==
    \/ ReadInit
    \/ ReadMolecule
    \/ ReadReturn
    \/ CreateDataset
    \/ OptAddEntryOk
    \/ OptAddEntryRaises
    \/ OptLoopEnd
    \/ OptComputeAndReturn

-----------------------------------------------------------------------------
Next == TorsionNext \/ OptimizationNext

Spec == Init /\ [][Next]_vars

-----------------------------------------------------------------------------
(* Properties *)

Torsion == prog = "torsion"

Optimization == prog = "optimization"

\* The molecules of a list of records in encounter order, as <<record, conformer>>
RECURSIVE FlatFrom(_, _, _)
FlatFrom(l, r, c) ==
    IF r > Len(l) THEN <<>>
    ELSE IF c >= l[r].nconf THEN FlatFrom(l, r + 1, 0)
    ELSE <<(<<r, c>>)>> \o FlatFrom(l, r, c + 1)

Flat == FlatFrom(molecule_data_list, 1, 0)

DigitValue(ch) == CHOOSE d \in 0..9 : Digits[d + 1] = ch

IsDigit(ch) == \E d \in 0..9 : Digits[d + 1] = ch

\* The number a sequence of decimal digits writes
RECURSIVE DecValue(_)
DecValue(ds) ==
    IF Len(ds) = 0 THEN 0
    ELSE 10 * DecValue(SubSeq(ds, 1, Len(ds) - 1)) + DigitValue(ds[Len(ds)])

\* key is base, "-", and n written in decimal without a leading zero
IsKeyOf(key, base, n) ==
    /\ Len(key) >= Len(base) + 2
    /\ SubSeq(key, 1, Len(base)) = base
    /\ key[Len(base) + 1] = "-"
    /\ LET ds == SubSeq(key, Len(base) + 2, Len(key))
       IN  /\ \A k \in 1..Len(ds) : IsDigit(ds[k])
           /\ (Len(ds) > 1 => ds[1] # "0")
           /\ DecValue(ds) = n

\* The base identifier of each molecule of the input, in encounter order
FlatBases ==
    LET flat == Flat
    IN  [p \in 1..Len(flat) |-> molecule_data_list[flat[p][1]].index]

\* How many of the first p - 1 entries of bases equal entry p
EarlierSame(bases, p) == Cardinality({ q \in 1..(p - 1) : bases[q] = bases[p] })

ReadDone == pc \in {"o_create", "o_add", "o_compute", "done"}
            \/ (pc = "aborted" /\ abortAt \notin {"load", "read"})

\* C1: in the torsion loop a KeyError from add_entry skips the entry: i and the
\* dataset are left as they were, the save check of that iteration is not
\* reached, the loop goes on to every later entry, and i counts exactly the
\* add_entry calls that returned.
C1_KeyErrorSkipsEntry ==
    Torsion =>
        /\ i = dsEntries
        /\ addCalls = i + skipped + (IF lastAdd = "OtherError" THEN 1 ELSE 0)
        /\ (pc = "t_savecheck" => lastAdd = "ok")
        /\ (lastAdd = "KeyError" => pc \in {"t_loop", "t_final_save", "t_compute",
                                            "done", "aborted"})
        /\ (pc \in {"t_final_save", "t_compute", "done"} =>
               pos = selected_torsions /\ addCalls = selected_torsions)

C1_Witness ==
    Torsion /\ pc = "done" /\ skipped > 0 /\ lastAdd = "ok" /\ i < selected_torsions

\* C2 (as claimed): in create_optimization_dataset a KeyError from add_entry
\* never ends the run.
C2_DuplicateKeyNonFatal ==
    Optimization => ~(pc = "aborted" /\ abortReason = "KeyError")

\* C3: a torsion run has saved floor(i/30) times whenever it stands at the loop
\* head or before an add_entry call (the save for a full batch comes right after
\* the addition that completes it), and floor(S/30) + 1 times once the final
\* save is done, also when S is 0 or a multiple of 30.
C3_SaveCount ==
    Torsion =>
        /\ (pc \in {"t_loop", "t_add", "t_final_save"} => saves = i \div BatchSize)
        /\ (pc = "t_savecheck" => i >= 1 /\ saves = (i - 1) \div BatchSize)
        /\ (pc \in {"t_compute", "done"} => saves = (i \div BatchSize) + 1)

C3_Witness ==
    Torsion /\ pc = "done" /\ i = 2 * BatchSize /\ saves = 3 /\ skipped > 0

C5_ArchiveFallbackLoads ==
    (Torsion /\ archive = "ok" /\ pc \notin {"t_extract", "t_read"}) =>
        /\ loaded
        /\ selected_torsions = fileTorsions
        /\ ~(pc = "aborted" /\ abortReason = "FileNotFoundError")

\* C6 (as claimed): every molecule of a list handed to add_entry passes the
\* connectivity check.
C6_AllSubmittedPassCheck ==
    (Torsion /\ lastAdd # "none") =>
        \A k \in 1..Len(initial_molecules) : PassesCheck(initial_molecules[k])

\* C7: compute is called at most once, only after every entry has been taken
\* and every add_entry call has returned; in the torsion script only after the
\* final save; in create_optimization_dataset if and only if start_compute; and
\* never in a run that aborted before reaching it.
C7_ComputeOnceAfterAll ==
    /\ computes <= 1
    /\ (pc = "aborted" /\ abortAt # "compute" => computes = 0)
    /\ (Torsion /\ computes = 1 =>
           /\ pos = selected_torsions
           /\ addCalls = selected_torsions
           /\ dsEntries + skipped = selected_torsions
           /\ saves = (i \div BatchSize) + 1
           /\ unflushed = 0)
    /\ (Optimization /\ computes = 1 =>
           /\ start_compute
           /\ pos = Cardinality(DOMAIN molecules_dict)
           /\ dsEntries = Cardinality(DOMAIN molecules_dict))
    /\ (Optimization /\ pc = "done" => (computes = 1 <=> start_compute))
    /\ (Torsion /\ pc = "done" => computes = 1)

C7_Witness ==
    Optimization /\ pc = "done" /\ computes = 1 /\ dsEntries >= 2

\* C8: after every insertion of read_molecules, and in what it returns, the two
\* dicts have the same keys.
C8_SameKeySets ==
    Optimization => DOMAIN molecules_dict = DOMAIN molecule_attributes

C8_Witness ==
    /\ Optimization
    /\ pc = "o_read_loop"
    /\ rec <= Len(molecule_data_list)
    /\ Cardinality(DOMAIN molecule_attributes) >= 2

\* C9 (as claimed): at most 29 entries are ever added and not yet saved.
C9_AtMost29Unflushed ==
    Torsion => unflushed <= BatchSize - 1

\* C9 (amended): at most 30 entries are ever added and not yet saved, and at
\* most 29 everywhere but between the add_entry call that completes a batch and
\* the save check that follows it.
C9_AtMost30Unflushed ==
    Torsion =>
        /\ unflushed <= BatchSize
        /\ (pc # "t_savecheck" => unflushed <= BatchSize - 1)

C9_Witness ==
    Torsion /\ pc = "t_savecheck" /\ unflushed = BatchSize /\ i = 2 * BatchSize

\* C10: with string base identifiers the assertion of read_molecules never
\* fails, no key is written twice, and the returned dict has one key per input
\* molecule.
C10_KeysUnique ==
    Optimization =>
        /\ ~(pc = "aborted" /\ abortReason = "AssertionError")
        /\ Cardinality(DOMAIN molecules_dict) = Len(keyOrder)
        /\ \A p, q \in 1..Len(keyOrder) : keyOrder[p] = keyOrder[q] => p = q
        /\ (ReadDone => Cardinality(DOMAIN molecules_dict) = Len(Flat))

C10_Witness ==
    /\ Optimization
    /\ pc = "o_create"
    /\ molecule_data_list = <<[index |-> CCO_1, nconf |-> 1], [index |-> CCO, nconf |-> MaxConf]>>
    /\ Cardinality(DOMAIN molecules_dict) = MaxConf + 1
    /\ <<"C", "C", "O", "-", "1", "-", "0">> \in DOMAIN molecules_dict
    /\ <<"C", "C", "O", "-", "1">> \in DOMAIN molecules_dict
=============================================================================
